---- MODULE Spec2Model ----
(***************************************************************************)
(* Navigation fields of CrowdDynamics: the grid (meshgrid / indicer), the  *)
(* distance map, the direction map, the repair of missing directions       *)
(* (fill_missing), the adjusting force and torque, and the main window's   *)
(* start, stop and plot-update handlers.                                   *)
(*                                                                         *)
(* Numbers.  Coordinates and grid parameters are integers, so the lattice  *)
(* arithmetic of meshgrid is exact.  Distances are fixed point: DScale     *)
(* units per unit of length.  A component of a normalised vector is the    *)
(* pair [num, l2], standing for num / sqrt(l2); l2 = 0 is not-a-number.    *)
(* Angles are integer multiples of pi / PiUnits.  Quotients are the pair   *)
(* <<numerator, denominator>> with a positive denominator.                 *)
(***************************************************************************)
EXTENDS Integers, Sequences, FiniteSets, TLC

VARIABLES
    pc,          \* position in the call sequence being run
    err,         \* name of the exception raised, "" when none
    args,        \* meshgrid arguments [step, minx, miny, maxx, maxy]
    mgrid,       \* the MeshGrid returned by meshgrid
    cell,        \* a lattice cell <<row, col>>
    position,    \* world coordinate <<x, y>> of that cell
    index,       \* the value indicer returned for position
    targets,     \* cells the target geometry is written to
    obstacles,   \* cells the obstacle geometry is written to
    buffered,    \* cells the buffered obstacle geometry is written to
    dmap,        \* the distance map
    dir_map,     \* the direction map (u, v)
    dir_before,  \* the direction map as it was when fill_missing was entered
    repairs,     \* number of fill_missing calls that returned
    fargs,       \* arguments of force_adjust
    fout,        \* value returned by force_adjust
    targs,       \* arguments of torque_adjust
    tout,        \* value returned by torque_adjust
    process,     \* MainWindow.process: 0 for None, else the simulation's number
    sims,        \* state of every simulation process created so far
    timer,       \* MainWindow.timer is active
    queue,       \* MainWindow.queue, oldest item first
    startButton, \* startButton is enabled
    stopButton,  \* stopButton is enabled
    saveButton   \* saveButton is enabled

vars == <<pc, err, args, mgrid, cell, position, index, targets, obstacles,
          buffered, dmap, dir_map, dir_before, repairs, fargs, fout, targs,
          tout, process, sims, timer, queue, startButton, stopButton,
          saveButton>>

gridVars == <<args, mgrid, cell, position, index>>
fieldVars == <<targets, obstacles, buffered, dmap, dir_map, dir_before, repairs>>
agentVars == <<fargs, fout, targs, tout>>
guiVars == <<process, sims, timer, queue, startButton, stopButton, saveButton>>

----------------------------------------------------------------------------
(* Bounds *)

MaxCoord == 2      \* grid bounds of the grid specification lie in 0..MaxCoord
MaxStep == 2       \* steps of the grid specification lie in -1..MaxStep
MaxCells == 9      \* field builds use grids of at most MaxCells cells
MaxTargets == 1    \* most cells a target geometry covers
MaxBuffered == 1   \* most cells a buffered obstacle geometry covers
RepairExtent == 1  \* repair inputs live on the grid (0, 0)-(RepairExtent, 1)
MaxRepairs == 2    \* most fill_missing calls in a row on one field
MaxMass == 2       \* masses, inertias and speeds lie in 0..MaxMass
MaxTau == 2        \* numerators and denominators of a characteristic time
AngleRes == 1      \* angles are multiples of pi / (2 * AngleRes)
DScale == 100      \* fixed-point units of distance per unit of length
MaxSims == 2       \* most simulations set in one run of the main window

----------------------------------------------------------------------------
(* Arithmetic helpers *)

Abs(a) == IF a < 0 THEN -a ELSE a

Sign(a) == IF a < 0 THEN -1 ELSE IF a > 0 THEN 1 ELSE 0

\* ceiling of a / b for b > 0
CeilDiv(a, b) == IF a >= 0 THEN (a + b - 1) \div b ELSE -((-a) \div b)

\* a / b truncated toward zero, for b # 0 (float to int64 conversion)
TruncDiv(a, b) == Sign(a) * Sign(b) * (Abs(a) \div Abs(b))

RECURSIVE IsqrtFrom(_, _)
IsqrtFrom(n, k) == IF (k + 1) * (k + 1) > n THEN k ELSE IsqrtFrom(n, k + 1)

RECURSIVE Isqrt(_)
\* floor of the square root
Isqrt(n) == IF n < 4 THEN IsqrtFrom(n, 0)
            ELSE LET h == 2 * Isqrt(n \div 4)
                 IN  IF (h + 1) * (h + 1) <= n THEN h + 1 ELSE h

----------------------------------------------------------------------------
(* Grid: meshgrid and indicer *)

NoGrid == [built |-> FALSE, step |-> 0, minx |-> 0, miny |-> 0,
           maxx |-> 0, maxy |-> 0, rows |-> 0, cols |-> 0]

\* len(np.arange(start, stop, step)) for step # 0
ArangeLen(start, stop, step) ==
    IF step > 0
    THEN (IF stop > start THEN CeilDiv(stop - start, step) ELSE 0)
    ELSE (IF stop < start THEN CeilDiv(start - stop, -step) ELSE 0)

\* meshgrid taking every step that is not positive for a division fault
meshgrid_stepcheck(a) ==
    IF a.step <= 0
    THEN [grid |-> NoGrid, err |-> "ZeroDivisionError"]
    ELSE [grid |-> [built |-> TRUE, step |-> a.step,
                    minx |-> a.minx, miny |-> a.miny,
                    maxx |-> a.maxx, maxy |-> a.maxy,
                    rows |-> ArangeLen(a.miny, a.maxy + a.step, a.step),
                    cols |-> ArangeLen(a.minx, a.maxx + a.step, a.step)],
          err |-> ""]

meshgrid(a) ==
    IF a.step = 0
    THEN [grid |-> NoGrid, err |-> "ZeroDivisionError"]
    ELSE [grid |-> [built |-> TRUE, step |-> a.step,
                    minx |-> a.minx, miny |-> a.miny,
                    maxx |-> a.maxx, maxy |-> a.maxy,
                    rows |-> ArangeLen(a.miny, a.maxy + a.step, a.step),
                    cols |-> ArangeLen(a.minx, a.maxx + a.step, a.step)],
          err |-> ""]

\* mgrid.shape as the set of its cells <<row, col>>
Cells(g) == (0 .. g.rows - 1) \X (0 .. g.cols - 1)

\* (X[r, c], Y[r, c]) of mgrid.values, indexing 'xy'
LatticeCoord(g, rc) == <<g.minx + rc[2] * g.step, g.miny + rc[1] * g.step>>

\* indicer without the shift to the grid's origin
indicer_noshift(g, p) == <<TruncDiv(p[1], g.step), TruncDiv(p[2], g.step)>>

indicer(g, p) == <<TruncDiv(p[1] - g.minx, g.step),
                   TruncDiv(p[2] - g.miny, g.step)>>

----------------------------------------------------------------------------
(* Initial values of the variables a specification does not use *)

NoArgs == [step |-> 1, minx |-> 0, miny |-> 0, maxx |-> 0, maxy |-> 0]
NoMap == [ma |-> FALSE, mask |-> <<>>, data |-> <<>>]
NoDir == [ma |-> FALSE, mask |-> <<>>, u |-> <<>>, v |-> <<>>]
NoForceArgs == [mass |-> 0, tau_adj |-> <<1, 1>>, v0 |-> 0,
                e0 |-> <<0, 0>>, v |-> <<0, 0>>]
NoTorqueArgs == [inertia_rot |-> 0, tau_rot |-> <<1, 1>>, phi_0 |-> 0,
                 phi |-> 0, omega_0 |-> 0, omega |-> 0]

GridIdle == /\ args = NoArgs /\ mgrid = NoGrid /\ cell = <<0, 0>>
            /\ position = <<0, 0>> /\ index = <<0, 0>>
FieldIdle == /\ targets = {} /\ obstacles = {} /\ buffered = {}
             /\ dmap = NoMap /\ dir_map = NoDir /\ dir_before = NoDir
             /\ repairs = 0
AgentIdle == /\ fargs = NoForceArgs /\ fout = <<>>
             /\ targs = NoTorqueArgs /\ tout = <<>>
GuiIdle == /\ process = 0 /\ sims = <<>> /\ timer = FALSE /\ queue = <<>>
           /\ startButton = FALSE /\ stopButton = FALSE /\ saveButton = FALSE

----------------------------------------------------------------------------
(* Specification of the grid: meshgrid, then a lattice point, then indicer *)

GridArgs == [step : -1 .. MaxStep, minx : 0 .. MaxCoord, miny : 0 .. MaxCoord,
             maxx : 0 .. MaxCoord, maxy : 0 .. MaxCoord]

InitGrid == /\ pc = "start" /\ err = ""
            /\ args \in GridArgs
            /\ mgrid = NoGrid /\ cell = <<0, 0>>
            /\ position = <<0, 0>> /\ index = <<0, 0>>
            /\ FieldIdle /\ AgentIdle /\ GuiIdle

\* mgrid = meshgrid(step, minx, miny, maxx, maxy)
Meshgrid ==
    /\ pc = "start"
    /\ LET m == meshgrid(args)
       IN  /\ mgrid' = m.grid
           /\ err' = m.err
           /\ pc' = IF m.err = "" THEN "grid" ELSE "error"
    /\ UNCHANGED <<args, cell, position, index, fieldVars, agentVars,
                   guiVars>>

\* position = (X[r, c], Y[r, c]) for an in-range cell of mgrid.values
LatticePoint ==
    /\ pc = "grid"
    /\ \E rc \in Cells(mgrid) :
          /\ cell' = rc
          /\ position' = LatticeCoord(mgrid, rc)
    /\ pc' = "point"
    /\ UNCHANGED <<err, args, mgrid, index, fieldVars, agentVars,
                   guiVars>>

\* index = mgrid.indicer(position)
Indicer ==
    /\ pc = "point"
    /\ index' = indicer(mgrid, position)
    /\ pc' = "index"
    /\ UNCHANGED <<err, args, mgrid, cell, position, fieldVars, agentVars,
                   guiVars>>

NextGrid == Meshgrid \/ LatticePoint \/ Indicer

SpecGrid == InitGrid /\ [][NextGrid]_vars

----------------------------------------------------------------------------
(* Rasters and the distance map *)

\* values_to_grid: grid[y, x] = value for every cell of the geometry;
\* geomCells stands for the cells geom_to_skimage(geom, indicer) yields
values_to_grid(geomCells, grid, value) ==
    [c \in DOMAIN grid |-> IF c \in geomCells THEN value ELSE grid[c]]

\* the cell one step from c along axis (1 = rows, 2 = columns), j = -1 or 1
Step(c, axis, j) == IF axis = 1 THEN <<c[1] + j, c[2]>> ELSE <<c[1], c[2] + j>>

\* the neighbours of c along axis that lie on the grid and are not masked
Neighbours(g, mask, c, axis) ==
    {n \in {Step(c, axis, -1), Step(c, axis, 1)} : n \in Cells(g) /\ ~mask[n]}

SetMin(S) == CHOOSE m \in S : \A x \in S : m <= x

\* skfmm, initialisation: a cell next to the zero contour of phi is frozen at
\* its distance to the contour, found by linear interpolation along each axis
CrossDist(g, phi, mask, c, axis, dx) ==
    LET ds == {(DScale * dx * phi[c]) \div (phi[c] - phi[n]) :
                  n \in {m \in Neighbours(g, mask, c, axis) : phi[c] * phi[m] < 0}}
    IN  IF ds = {} THEN 0 ELSE SetMin(ds)

Borders(g, phi, mask, c, dx) ==
    /\ ~mask[c]
    /\ \E axis \in 1 .. 2 : CrossDist(g, phi, mask, c, axis, dx) > 0

InitDist(g, phi, mask, c, dx) ==
    LET a == CrossDist(g, phi, mask, c, 1, dx)
        b == CrossDist(g, phi, mask, c, 2, dx)
        d == IF a = 0 THEN b
             ELSE IF b = 0 THEN a
             ELSE Isqrt((a * a * b * b) \div (a * a + b * b))
    IN  phi[c] * d

\* skfmm, first-order update of a cell from its frozen neighbours: along each
\* axis the frozen neighbour of least magnitude; then the quadratic, or the
\* position of its minimum when it has no root
UpdatePoint(g, phi, mask, frozen, d, c, dx) ==
    LET Val(axis) ==
            LET vs == {Abs(d[n]) : n \in Neighbours(g, mask, c, axis) \cap frozen}
            IN  IF vs = {} THEN -1 ELSE SetMin(vs)
        a == Val(1)
        b == Val(2)
        h == DScale * dx
        det == 2 * h * h - (a - b) * (a - b)
        t == IF a < 0 THEN b + h
             ELSE IF b < 0 THEN a + h
             ELSE IF det >= 0 THEN (a + b + Isqrt(det)) \div 2
             ELSE (a + b) \div 2
    IN  phi[c] * t

RECURSIVE March(_, _, _, _, _, _)
\* skfmm, the march: freeze the cell of least tentative magnitude among the
\* cells next to a frozen one, until none is left
March(g, phi, mask, frozen, d, dx) ==
    LET band == {c \in Cells(g) \ frozen :
                    /\ ~mask[c]
                    /\ \E axis \in 1 .. 2 :
                          Neighbours(g, mask, c, axis) \cap frozen # {}}
    IN  IF band = {} THEN [frozen |-> frozen, d |-> d]
        ELSE LET t == [c \in band |-> UpdatePoint(g, phi, mask, frozen, d, c, dx)]
                 c0 == CHOOSE c \in band : \A e \in band : Abs(t[c]) <= Abs(t[e])
             IN  March(g, phi, mask, frozen \cup {c0},
                       [d EXCEPT ![c0] = t[c0]], dx)

\* skfmm.distance(phi, dx): the signed distance to the zero contour of phi.
\* The result is a masked array only when some cell was masked or not reached.
skfmm_distance(g, phi, mask, dx) ==
    LET front == {c \in Cells(g) : Borders(g, phi, mask, c, dx)}
        d0 == [c \in Cells(g) |->
                  IF c \in front THEN InitDist(g, phi, mask, c, dx) ELSE 0]
        m == March(g, phi, mask, front, d0, dx)
    IN  IF front = {}
        THEN [err |-> "ValueError", map |-> NoMap]
        ELSE [err |-> "",
              map |-> [ma |-> m.frozen # Cells(g),
                       mask |-> [c \in Cells(g) |-> c \notin m.frozen],
                       data |-> m.d]]

distance_map(g, targetCells, obstacleCells) ==
    LET contour == values_to_grid(targetCells, [c \in Cells(g) |-> -1], 1)
        mask == values_to_grid(obstacleCells, [c \in Cells(g) |-> FALSE], TRUE)
    IN  skfmm_distance(g, contour, mask, g.step)

----------------------------------------------------------------------------
(* The direction map *)

\* the value a masked cell of a vector component carries
Filler == [num |-> 0, l2 |-> 0]

\* np.gradient along axis at c, times two: central differences inside,
\* one-sided differences on the first and the last index.  The result is
\* masked when one of the two cells it reads is masked.
Gradient(g, dm, c, axis) ==
    LET n == IF axis = 1 THEN g.rows ELSE g.cols
        i == c[axis]
        hi == IF i = n - 1 THEN c ELSE Step(c, axis, 1)
        lo == IF i = 0 THEN c ELSE Step(c, axis, -1)
        w == IF 0 < i /\ i < n - 1 THEN 1 ELSE 2
    IN  [m |-> dm.ma /\ (dm.mask[hi] \/ dm.mask[lo]),
         val |-> w * (dm.data[hi] - dm.data[lo])]

\* direction_map whose division leaves a quotient that is not finite unmasked
direction_map_nomask(g, dm) ==
    IF g.rows < 2 \/ g.cols < 2
    THEN [err |-> "ValueError", map |-> NoDir]
    ELSE LET u == [c \in Cells(g) |-> Gradient(g, dm, c, 1)]
             v == [c \in Cells(g) |-> Gradient(g, dm, c, 2)]
             l2 == [c \in Cells(g) |-> u[c].val * u[c].val + v[c].val * v[c].val]
             m == [c \in Cells(g) |-> dm.ma /\ (u[c].m \/ v[c].m)]
         IN  [err |-> "",
              map |-> [ma |-> dm.ma,
                       mask |-> m,
                       u |-> [c \in Cells(g) |->
                                 IF m[c] THEN Filler
                                 ELSE [num |-> v[c].val, l2 |-> l2[c]]],
                       v |-> [c \in Cells(g) |->
                                 IF m[c] THEN Filler
                                 ELSE [num |-> u[c].val, l2 |-> l2[c]]]]]

\* direction_map: (v / l, u / l) with u, v = np.gradient(dmap), l = hypot(u, v)
\* and l = nan where it is 0.  Dividing masked arrays masks the quotients that
\* are not finite; dividing plain arrays leaves them not-a-number.
direction_map(g, dm) ==
    IF g.rows < 2 \/ g.cols < 2
    THEN [err |-> "ValueError", map |-> NoDir]
    ELSE LET u == [c \in Cells(g) |-> Gradient(g, dm, c, 1)]
             v == [c \in Cells(g) |-> Gradient(g, dm, c, 2)]
             l2 == [c \in Cells(g) |-> u[c].val * u[c].val + v[c].val * v[c].val]
             m == [c \in Cells(g) |->
                      dm.ma /\ (u[c].m \/ v[c].m \/ l2[c] = 0)]
         IN  [err |-> "",
              map |-> [ma |-> dm.ma,
                       mask |-> m,
                       u |-> [c \in Cells(g) |->
                                 IF m[c] THEN Filler
                                 ELSE [num |-> v[c].val, l2 |-> l2[c]]],
                       v |-> [c \in Cells(g) |->
                                 IF m[c] THEN Filler
                                 ELSE [num |-> u[c].val, l2 |-> l2[c]]]]]

----------------------------------------------------------------------------
(* Repair of the missing directions *)

\* find_boundaries(u.mask, mode='outer'): the cells that are not masked and
\* have a masked cell next to them along an axis
find_boundaries(g, m) ==
    {c \in Cells(g) :
        /\ ~m[c]
        /\ \E axis \in 1 .. 2, j \in {-1, 1} :
              Step(c, axis, j) \in Cells(g) /\ m[Step(c, axis, j)]}

\* squared distance between the lattice points of two cells
Dist2(g, a, b) ==
    LET p == LatticeCoord(g, a)
        q == LatticeCoord(g, b)
    IN  (p[1] - q[1]) * (p[1] - q[1]) + (p[2] - q[2]) * (p[2] - q[2])

\* NearestNDInterpolator: the points of the interpolator nearest to c
Nearest(g, points, c) ==
    {p \in points : \A q \in points : Dist2(g, c, p) <= Dist2(g, c, q)}

RECURSIVE Assignments(_, _, _)
\* every way of giving each cell of todo one of its nearest points
Assignments(g, points, todo) ==
    IF todo = {} THEN {<<>>}
    ELSE LET c == CHOOSE x \in todo : TRUE
         IN  {(c :> p) @@ f : p \in Nearest(g, points, c),
                              f \in Assignments(g, points, todo \ {c})}

\* np.logical_and in the place of np.logical_xor
Mask2_and(g, mask, dm) == {c \in Cells(g) : mask[c] /\ dm.mask[c]}

\* np.logical_xor(mask, u.mask)
Mask2(g, mask, dm) == {c \in Cells(g) : mask[c] # dm.mask[c]}

\* fill_missing: the outcomes of the call, one for each way of breaking the
\* ties between nearest boundary points
fill_missing(mask, g, dm) ==
    IF ~dm.ma
    THEN {[err |-> "AttributeError", map |-> dm]}
    ELSE LET boundaries == find_boundaries(g, dm.mask)
             mask2 == Mask2(g, mask, dm)
         IN  IF mask2 # {} /\ boundaries = {}
             THEN {[err |-> "IndexError", map |-> dm]}
             ELSE {[err |-> "",
                    map |-> [ma |-> TRUE,
                             mask |-> [c \in Cells(g) |->
                                          dm.mask[c] /\ c \notin mask2],
                             u |-> [c \in Cells(g) |->
                                       IF c \in mask2 THEN dm.u[f[c]]
                                       ELSE dm.u[c]],
                             v |-> [c \in Cells(g) |->
                                       IF c \in mask2 THEN dm.v[f[c]]
                                       ELSE dm.v[c]]]] :
                      f \in Assignments(g, boundaries, mask2)}

\* subsets of S of at most n elements
SubsetsUpTo(S, n) == {T \in SUBSET S : Cardinality(T) <= n}

----------------------------------------------------------------------------
(* Specification of a field build: direction_map_targets on a built grid *)

FieldArgs == {a \in [step : {1}, minx : {0}, miny : {0},
                     maxx : 0 .. MaxCells - 1, maxy : 0 .. MaxCells - 1] :
                 (a.maxx + 1) * (a.maxy + 1) <= MaxCells}

InitField == /\ pc = "start" /\ err = ""
             /\ args \in FieldArgs
             /\ mgrid = NoGrid /\ cell = <<0, 0>>
             /\ position = <<0, 0>> /\ index = <<0, 0>>
             /\ FieldIdle /\ AgentIdle /\ GuiIdle

\* obstacles_buffered = obstacles.buffer(buffer_radius).intersection(domain)
\* dmap_targets = distance_map(mgrid, targets, obstacles_buffered)
DistanceMap ==
    /\ pc = "grid"
    /\ \E t \in SubsetsUpTo(Cells(mgrid), MaxTargets),
          b \in SubsetsUpTo(Cells(mgrid), MaxBuffered) :
          LET r == distance_map(mgrid, t, b)
          IN  /\ targets' = t
              /\ buffered' = b
              /\ dmap' = r.map
              /\ err' = r.err
              /\ pc' = IF r.err = "" THEN "dmap" ELSE "error"
    /\ UNCHANGED <<obstacles, dir_map, dir_before, repairs, gridVars, agentVars,
                   guiVars>>

\* dir_map_targets = direction_map(dmap_targets)
DirectionMap ==
    /\ pc = "dmap"
    /\ LET r == direction_map(mgrid, dmap)
       IN  /\ dir_map' = r.map
           /\ err' = r.err
           /\ pc' = IF r.err = "" THEN "dirmap" ELSE "error"
    /\ UNCHANGED <<targets, obstacles, buffered, dmap, dir_before, repairs,
                   gridVars, agentVars,
                   guiVars>>

\* mask = raster of the obstacles; fill_missing(mask, mgrid, dir_map_targets)
FillMissing ==
    /\ pc = "dirmap"
    /\ \E o \in SUBSET buffered :
          \E r \in fill_missing(
                      values_to_grid(o, [c \in Cells(mgrid) |-> FALSE], TRUE),
                      mgrid, dir_map) :
             /\ obstacles' = o
             /\ dir_before' = dir_map
             /\ dir_map' = r.map
             /\ err' = r.err
             /\ pc' = IF r.err = "" THEN "done" ELSE "error"
             /\ repairs' = IF r.err = "" THEN repairs + 1 ELSE repairs
    /\ UNCHANGED <<targets, buffered, dmap, gridVars, agentVars,
                   guiVars>>

NextField == Meshgrid \/ DistanceMap \/ DirectionMap \/ FillMissing

SpecField == InitField /\ [][NextField]_vars

----------------------------------------------------------------------------
(* Specification of the repair alone: fill_missing, called up to MaxRepairs *)
(* times, on any masked direction map and any exclude mask                  *)

RepairGrid == meshgrid([step |-> 1, minx |-> 0, miny |-> 0,
                        maxx |-> RepairExtent, maxy |-> 1]).grid

East == [u |-> [num |-> 1, l2 |-> 1], v |-> [num |-> 0, l2 |-> 1]]
North == [u |-> [num |-> 0, l2 |-> 1], v |-> [num |-> 1, l2 |-> 1]]
Missing == [u |-> Filler, v |-> Filler]

InitRepair ==
    /\ pc = "dirmap" /\ err = ""
    /\ args = [step |-> 1, minx |-> 0, miny |-> 0,
               maxx |-> RepairExtent, maxy |-> 1]
    /\ mgrid = RepairGrid
    /\ cell = <<0, 0>> /\ position = <<0, 0>> /\ index = <<0, 0>>
    /\ targets = {} /\ buffered = {} /\ dmap = NoMap
    /\ obstacles \in SUBSET Cells(RepairGrid)
    /\ \E f \in [Cells(RepairGrid) -> {East, North, Missing}] :
          dir_map = [ma |-> TRUE,
                     mask |-> [c \in Cells(RepairGrid) |-> f[c] = Missing],
                     u |-> [c \in Cells(RepairGrid) |-> f[c].u],
                     v |-> [c \in Cells(RepairGrid) |-> f[c].v]]
    /\ dir_before = NoDir
    /\ repairs = 0
    /\ AgentIdle /\ GuiIdle

\* fill_missing(mask, mgrid, dir_map) with the obstacle raster as the mask
Repair ==
    /\ pc \in {"dirmap", "done"}
    /\ repairs < MaxRepairs
    /\ \E r \in fill_missing(
                   values_to_grid(obstacles, [c \in Cells(mgrid) |-> FALSE], TRUE),
                   mgrid, dir_map) :
          /\ dir_before' = dir_map
          /\ dir_map' = r.map
          /\ err' = r.err
          /\ pc' = IF r.err = "" THEN "done" ELSE "error"
          /\ repairs' = IF r.err = "" THEN repairs + 1 ELSE repairs
    /\ UNCHANGED <<targets, obstacles, buffered, dmap, gridVars, agentVars,
                   guiVars>>

NextRepair == Repair

SpecRepair == InitRepair /\ [][NextRepair]_vars

----------------------------------------------------------------------------
(* Adjusting force and torque *)

\* np.pi, in angle units
PiUnits == 2 * AngleRes

\* crowddynamics.core.vector.wrap_to_pi: the angle wrapped into [-pi, pi]
wrap_to_pi(rad) ==
    IF rad > PiUnits THEN rad - 2 * PiUnits
    ELSE IF rad < -PiUnits THEN rad + 2 * PiUnits
    ELSE rad

\* force_adjust multiplying by tau_adj
force_adjust_times(a) ==
    [i \in 1 .. 2 |->
        <<a.mass * a.tau_adj[1] * (a.v0 * a.e0[i] - a.v[i]), a.tau_adj[2]>>]

\* (mass / tau_adj) * (v0 * e0 - v), tau_adj = n / d with n # 0
force_adjust(a) ==
    [i \in 1 .. 2 |->
        <<a.mass * a.tau_adj[2] * (a.v0 * a.e0[i] - a.v[i]), a.tau_adj[1]>>]

\* torque_adjust on the angular difference phi - phi_0
torque_adjust_swapped(a) ==
    <<a.inertia_rot * a.tau_rot[2]
         * (wrap_to_pi(a.phi - a.phi_0) * a.omega_0 - a.omega * PiUnits),
      a.tau_rot[1] * PiUnits>>

\* inertia_rot / tau_rot * (wrap_to_pi(phi_0 - phi) / np.pi * omega_0 - omega)
torque_adjust(a) ==
    <<a.inertia_rot * a.tau_rot[2]
         * (wrap_to_pi(a.phi_0 - a.phi) * a.omega_0 - a.omega * PiUnits),
      a.tau_rot[1] * PiUnits>>

Taus == (0 .. MaxTau) \X (1 .. MaxTau)
UnitDirs == {<<1, 0>>, <<0, 1>>, <<-1, 0>>, <<0, -1>>}
Angles == -PiUnits .. PiUnits

ForceArgs == [mass : 0 .. MaxMass, tau_adj : Taus, v0 : 0 .. MaxMass,
              e0 : UnitDirs, v : (-1 .. 1) \X (-1 .. 1)]
TorqueArgs == [inertia_rot : 0 .. MaxMass, tau_rot : Taus, phi_0 : Angles,
               phi : Angles, omega_0 : 0 .. MaxMass, omega : -1 .. 1]

InitAgent ==
    /\ err = ""
    /\ GridIdle /\ FieldIdle /\ GuiIdle
    /\ fout = <<>> /\ tout = <<>>
    /\ \/ pc = "force_call" /\ fargs \in ForceArgs /\ targs = NoTorqueArgs
       \/ pc = "torque_call" /\ targs \in TorqueArgs /\ fargs = NoForceArgs

\* fout = force_adjust(mass, tau_adj, v0, e0, v)
ForceAdjust ==
    /\ pc = "force_call"
    /\ IF fargs.tau_adj[1] = 0
       THEN /\ pc' = "error" /\ err' = "ZeroDivisionError"
            /\ UNCHANGED fout
       ELSE /\ pc' = "force_done"
            /\ fout' = force_adjust(fargs)
            /\ UNCHANGED err
    /\ UNCHANGED <<fargs, targs, tout, gridVars, fieldVars, guiVars>>

\* tout = torque_adjust(inertia_rot, tau_rot, phi_0, phi, omega_0, omega)
TorqueAdjust ==
    /\ pc = "torque_call"
    /\ IF targs.tau_rot[1] = 0
       THEN /\ pc' = "error" /\ err' = "ZeroDivisionError"
            /\ UNCHANGED tout
       ELSE /\ pc' = "torque_done"
            /\ tout' = torque_adjust(targs)
            /\ UNCHANGED err
    /\ UNCHANGED <<fargs, targs, fout, gridVars, fieldVars, guiVars>>

NextAgent == ForceAdjust \/ TorqueAdjust

SpecAgent == InitAgent /\ [][NextAgent]_vars

----------------------------------------------------------------------------
(* The main window: set_simulation, start, stop and the timer's update_plots *)
(* run one at a time on the GUI thread; pc names the handler that returned   *)
(* last, and is "get" while update_plots waits in queue.get().  Simulation   *)
(* processes run beside it and put items on the queue.                       *)

\* Queue(maxsize=4)
QueueMaxsize == 4

InitGui ==
    /\ pc = "gui" /\ err = ""
    /\ GridIdle /\ FieldIdle /\ AgentIdle
    /\ process = 0 /\ sims = <<>>
    /\ timer = FALSE
    /\ queue = <<>>
    /\ startButton = FALSE /\ stopButton = FALSE /\ saveButton = FALSE

\* set_simulation: reset_buffers, a new process, enable_controls(True)
SetSimulation ==
    /\ pc # "get"
    /\ Len(sims) < MaxSims
    /\ queue' = <<>>
    /\ sims' = Append(sims, "new")
    /\ process' = Len(sims) + 1
    /\ startButton' = TRUE /\ stopButton' = TRUE /\ saveButton' = TRUE
    /\ pc' = "set_simulation"
    /\ UNCHANGED <<err, timer, gridVars, fieldVars, agentVars>>

\* start, on a click of the enabled start button
Start ==
    /\ pc # "get"
    /\ startButton
    /\ startButton' = FALSE
    /\ IF process # 0
       THEN /\ sims' = [sims EXCEPT ![process] = "started"]
            /\ timer' = TRUE
       ELSE UNCHANGED <<sims, timer>>
    /\ pc' = "start"
    /\ UNCHANGED <<err, process, queue, stopButton, saveButton,
                   gridVars, fieldVars, agentVars>>

\* stop, on a click of the enabled stop button
Stop ==
    /\ pc # "get"
    /\ stopButton
    /\ IF process # 0
       THEN /\ sims' = [sims EXCEPT ![process] =
                           IF @ = "started" THEN "stopping" ELSE @]
            /\ process' = 0
       ELSE UNCHANGED <<sims, process>>
    /\ pc' = "stop"
    /\ UNCHANGED <<err, timer, queue, startButton, stopButton, saveButton,
                   gridVars, fieldVars, agentVars>>

\* the timer fires: update_plots is entered and calls queue.get()
UpdatePlotsEnter ==
    /\ pc # "get"
    /\ timer
    /\ pc' = "get"
    /\ UNCHANGED <<err, guiVars, gridVars, fieldVars, agentVars>>

\* queue.get() returns: None stops the timer and disables the controls
UpdatePlotsGet ==
    /\ pc = "get"
    /\ queue # <<>>
    /\ queue' = Tail(queue)
    /\ IF Head(queue) = "None"
       THEN /\ timer' = FALSE
            /\ startButton' = FALSE /\ stopButton' = FALSE
            /\ saveButton' = FALSE
       ELSE UNCHANGED <<timer, startButton, stopButton, saveButton>>
    /\ pc' = "update_plots"
    /\ UNCHANGED <<err, process, sims, gridVars, fieldVars, agentVars>>

\* a started simulation puts the data of a step on the queue
SimPut ==
    /\ \E i \in 1 .. Len(sims) : sims[i] = "started"
    /\ Len(queue) < QueueMaxsize
    /\ queue' = Append(queue, "data")
    /\ UNCHANGED <<pc, err, process, sims, timer, startButton, stopButton,
                   saveButton, gridVars, fieldVars, agentVars>>

\* a simulation that ran to its end or was stopped puts None and ends
SimFinish ==
    /\ Len(queue) < QueueMaxsize
    /\ \E i \in 1 .. Len(sims) :
          /\ sims[i] \in {"started", "stopping"}
          /\ sims' = [sims EXCEPT ![i] = "ended"]
    /\ queue' = Append(queue, "None")
    /\ UNCHANGED <<pc, err, process, timer, startButton, stopButton,
                   saveButton, gridVars, fieldVars, agentVars>>

\* a stopped simulation ends and puts nothing
SimExit ==
    /\ \E i \in 1 .. Len(sims) :
          /\ sims[i] = "stopping"
          /\ sims' = [sims EXCEPT ![i] = "ended"]
    /\ UNCHANGED <<pc, err, process, timer, queue, startButton, stopButton,
                   saveButton, gridVars, fieldVars, agentVars>>

NextGui == \/ SetSimulation \/ Start \/ Stop
           \/ UpdatePlotsEnter \/ UpdatePlotsGet
           \/ SimPut \/ SimFinish \/ SimExit

SpecGui == InitGui /\ [][NextGui]_vars

----------------------------------------------------------------------------
(* Properties of the grid *)

\* the arguments the grid contract calls valid
ValidArgs == args.step > 0 /\ args.minx <= args.maxx /\ args.miny <= args.maxy

C6_ConfigurationError ==
    (pc # "start" /\ ~ValidArgs) =>
        (pc = "error" /\ err = "ConfigurationError" /\ ~mgrid.built)

\* C6, amended: meshgrid validates nothing and never raises
\* ConfigurationError.  With step = 0 it fails with the ZeroDivisionError of
\* np.arange and returns no grid; with step < 0, or minX > maxX, or
\* minY > maxY (step # 0) it returns a grid without raising.
C6_NoValidation ==
    /\ err # "ConfigurationError"
    /\ (pc # "start" /\ ~ValidArgs) =>
          IF args.step = 0
          THEN pc = "error" /\ err = "ZeroDivisionError" /\ ~mgrid.built
          ELSE pc # "error" /\ err = "" /\ mgrid.built

C6_Witness == /\ pc = "grid" /\ mgrid.built /\ err = ""
              /\ args.step < 0 /\ args.minx > args.maxx /\ mgrid.cols > 1

----------------------------------------------------------------------------
(* Properties of the field build *)

RECURSIVE Reach(_, _, _)
\* the cells reached from the cells of S along the axes without entering blocked
Reach(g, blocked, S) ==
    LET more == {n \in Cells(g) \ (S \cup blocked) :
                    \E c \in S, axis \in 1 .. 2, j \in {-1, 1} :
                       n = Step(c, axis, j)}
    IN  IF more = {} THEN S ELSE Reach(g, blocked, S \cup more)

\* C1: the distance map is 0 on every target cell, positive and finite on
\* every other cell reachable from a target without crossing an obstacle, and
\* masked only on obstacle cells.
C1_DistanceField ==
    pc = "dmap" =>
        \A c \in Cells(mgrid) :
           /\ c \in targets \ buffered =>
                 ~dmap.mask[c] /\ dmap.data[c] = 0
           /\ c \in Reach(mgrid, buffered, targets \ buffered) \ targets =>
                 ~dmap.mask[c] /\ dmap.data[c] > 0
           /\ dmap.mask[c] => c \in buffered

\* a component pair is a unit vector: neither is not-a-number, both are
\* divided by the same length, and the squares of the two add up to one
IsUnit(a, b) ==
    /\ a.l2 > 0 /\ b.l2 = a.l2
    /\ a.num * a.num + b.num * b.num = a.l2

\* C2: a build that returns without raising leaves no cell outside the
\* unbuffered obstacle raster masked or not-a-number.
C2_BuildComplete ==
    pc = "done" =>
        \A c \in Cells(mgrid) \ obstacles :
           /\ ~dir_map.mask[c]
           /\ dir_map.u[c].l2 > 0 /\ dir_map.v[c].l2 > 0

\* the gradient of the distance map is exactly zero at c
ZeroGradient(c) ==
    /\ ~Gradient(mgrid, dmap, c, 1).m /\ Gradient(mgrid, dmap, c, 1).val = 0
    /\ ~Gradient(mgrid, dmap, c, 2).m /\ Gradient(mgrid, dmap, c, 2).val = 0

C2_Witness ==
    /\ pc = "done"
    /\ \E c \in targets \ buffered : ZeroGradient(c) /\ ~dir_map.mask[c]
    /\ \E c \in buffered \ obstacles : dir_before.mask[c] /\ ~dir_map.mask[c]

\* C4: after direction_map and fill_missing every cell of the direction map
\* is masked or holds a unit vector.
C4_UnitVectors ==
    pc = "done" =>
        \A c \in Cells(mgrid) :
           dir_map.mask[c] \/ IsUnit(dir_map.u[c], dir_map.v[c])

C4_Witness ==
    /\ pc = "done"
    /\ \E c \in Cells(mgrid) :
          /\ ZeroGradient(c) /\ dir_before.mask[c]
          /\ ~dir_map.mask[c] /\ IsUnit(dir_map.u[c], dir_map.v[c])
    /\ \E c \in Cells(mgrid) : dir_map.mask[c]

\* C7: wherever the direction map is defined it is the negated normalised
\* gradient of the distance map, so it points toward decreasing values of
\* the distance map: its product with the gradient is negative.
C7_NegatedGradient ==
    pc = "dirmap" =>
        \A c \in Cells(mgrid) :
           (~dir_map.mask[c] /\ dir_map.u[c].l2 > 0) =>
               dir_map.u[c].num * Gradient(mgrid, dmap, c, 2).val
                 + dir_map.v[c].num * Gradient(mgrid, dmap, c, 1).val < 0

----------------------------------------------------------------------------
(* Properties of the repair *)

\* C3: fill_missing leaves every cell of the exclude mask as it was, in
\* value and in being masked or not.
C3_ExcludedUntouched ==
    (pc = "done" /\ repairs >= 1) =>
        \A c \in obstacles :
           /\ dir_map.mask[c] = dir_before.mask[c]
           /\ dir_map.u[c] = dir_before.u[c]
           /\ dir_map.v[c] = dir_before.v[c]

\* the direction map dm is defined on every cell outside the exclude mask
FullyDefined(dm) == \A c \in Cells(mgrid) \ obstacles : ~dm.mask[c]

\* C8: fill_missing on a direction map that is defined everywhere outside
\* the exclude mask returns without an error and changes nothing.
C8_RepairIdempotent ==
    (dir_before # NoDir /\ FullyDefined(dir_before)) =>
        (pc = "done" /\ dir_map = dir_before)

----------------------------------------------------------------------------
(* Properties of the adjusting force and torque *)

C10_Force ==
    [][(pc = "force_call" /\ fargs.tau_adj[1] > 0) =>
          /\ fargs' = fargs
          /\ \A i \in 1 .. 2 :
                /\ fout'[i][2] > 0
                /\ fout'[i][1] * fargs.tau_adj[1] =
                      fargs.mass * fargs.tau_adj[2]
                        * (fargs.v0 * fargs.e0[i] - fargs.v[i]) * fout'[i][2]
          /\ fargs = [mass |-> 2, tau_adj |-> <<1, 2>>, v0 |-> 1,
                      e0 |-> <<1, 0>>, v |-> <<0, 0>>] =>
                (fout'[1][1] = 4 * fout'[1][2] /\ fout'[2][1] = 0)]_vars

C10_Witness ==
    /\ pc = "force_done"
    /\ fargs = [mass |-> 2, tau_adj |-> <<1, 2>>, v0 |-> 1,
                e0 |-> <<1, 0>>, v |-> <<0, 0>>]
    /\ fout[1][1] = 4 * fout[1][2] /\ fout[2][1] = 0

----------------------------------------------------------------------------
(* Properties of the main window *)

\* C11: a stop with a simulation set leaves the update timer stopped when it
\* returns, and from then on, while no simulation is set, update_plots is
\* not entered again.
C11_StopStopsUpdates ==
    [][/\ (process # 0 /\ pc' = "stop") => ~timer'
       /\ (process = 0 /\ pc # "get") => pc' # "get"]_vars

====
